---- MODULE Spec2Model ----
(***************************************************************************)
(* Model of the Phylobayes starter and governor,                           *)
(* src/phylobayes_starter/start_phylobayes.py.                             *)
(*                                                                         *)
(* The governor is one sequential process.  Every step that talks to the   *)
(* outside world (srun submission, sacct query, reading a .trace or .run   *)
(* file, running bpcomp / tracecomp, stoppb) is one action; the answer of   *)
(* the outside world is drawn with \E from a small set.                    *)
(*                                                                         *)
(* Text is modelled as a sequence of tokens: a line is a sequence of       *)
(* strings in which WS stands for one whitespace character; a program's    *)
(* stdout is a sequence of lines.  Decimal numbers are kept as the text    *)
(* the tools print and are converted by float, in hundredths.              *)
(***************************************************************************)
EXTENDS Integers, Sequences, FiniteSets, TLC

\* ---------------------------------------------------------------- bounds
\* largest line count a .trace file reaches in the model
MaxCount == 4
\* largest number of lines in the stdout of tracecomp
MaxRows == 1
\* largest chain number a file name is generated for
MaxChainNr == 11
\* largest value of --chains in a call of main
MaxChains == 3
\* largest value of SLURM_NTASKS
MaxTasks == 4
\* largest value of --processes
MaxProcs == 12

\* ------------------------------------------------------ program constants
\* argparse default of --chains
chains == 2
\* start_pb_jobs: max_wait = 60
max_wait == 60
\* PBStarter.BPCOMP_MAXDIFF = 0.3, in hundredths
BPCOMP_MAXDIFF == 30
\* PBStarter.TRCOMP_EFFSIZE = 50.0, in hundredths
TRCOMP_EFFSIZE == 5000
\* PBStarter.TRCOMP_RELDIFF = 0.3, in hundredths
TRCOMP_RELDIFF == 30

\* argparse default of --processes
processes == 1
\* argparse default of --pb-args, character by character
pb_args == <<"-", "c", "a", "t", " ", "-", "g", "t", "r">>
\* the value given to --input in the runs of the model: data/aln.phy
infile == <<"d", "a", "t", "a", "/", "a", "l", "n", ".", "p", "h", "y">>

\* value of os.environ.get for a variable that is not set
None == "<None>"
\* a file that does not exist (as a line count)
Absent == -1
\* one whitespace character inside a line
WS == " "
\* no pure function has been called
NotCalled == <<>>

Chains == 1..chains

\* ------------------------------------------------------------ text helpers
\* str.rstrip(): the line without its trailing whitespace
RECURSIVE rstrip(_)
rstrip(line) ==
    IF Len(line) > 0 /\ line[Len(line)] = WS
    THEN rstrip(SubSeq(line, 1, Len(line) - 1))
    ELSE line

\* re.split("\s+", s): fields between maximal runs of whitespace; leading
\* whitespace yields an empty first field, the empty string yields [""]
RECURSIVE SplitFrom(_, _, _, _)
SplitFrom(line, k, cur, inWs) ==
    IF k > Len(line) THEN <<cur>>
    ELSE IF line[k] = WS
         THEN IF inWs THEN SplitFrom(line, k + 1, cur, TRUE)
              ELSE <<cur>> \o SplitFrom(line, k + 1, "", TRUE)
         ELSE SplitFrom(line, k + 1, cur \o line[k], FALSE)

re_split(line) == SplitFrom(line, 1, "", FALSE)

\* ------------------------------------------------- output file names
\* A path or an argument string is the sequence of its characters.

\* str.rfind(ch), counted from 1: 0 when ch does not occur
rfind(str, ch) ==
    LET hits == {k \in 1..Len(str) : str[k] = ch}
    IN  IF hits = {} THEN 0 ELSE CHOOSE k \in hits : \A h \in hits : h <= k

\* str.rstrip("/")
RECURSIVE rstrip_sep(_)
rstrip_sep(str) ==
    IF Len(str) > 0 /\ str[Len(str)] = "/"
    THEN rstrip_sep(SubSeq(str, 1, Len(str) - 1))
    ELSE str

\* os.path.dirname: up to the last "/", without trailing slashes unless
\* it is made of slashes only
dirname(filepath) ==
    LET head == SubSeq(filepath, 1, rfind(filepath, "/"))
    IN  IF head # <<>> /\ \E k \in 1..Len(head) : head[k] # "/"
        THEN rstrip_sep(head) ELSE head

\* os.path.basename: what follows the last "/"
basename(filepath) ==
    SubSeq(filepath, rfind(filepath, "/") + 1, Len(filepath))

\* os.path.splitext(filename)[0]: the last dot starts the extension unless
\* only dots precede it
splitext0(filename) ==
    LET sepIndex == rfind(filename, "/")
        dotIndex == rfind(filename, ".")
    IN  IF /\ dotIndex > sepIndex
           /\ \E k \in (sepIndex + 1)..(dotIndex - 1) : filename[k] # "."
        THEN SubSeq(filename, 1, dotIndex - 1)
        ELSE filename

\* create_tokens_from_filepath
create_tokens_from_filepath(filepath) ==
    [dirbase |-> dirname(filepath),
     filename |-> basename(filepath),
     basename |-> splitext0(basename(filepath))]

\* re.sub(r"\s+", "", s)
IsSpace(c) == c \in {" ", "\t"}
re_sub_space(str) == SelectSeq(str, LAMBDA c : ~IsSpace(c))

\* re.sub(r"-", "_", s)
re_sub_dash(str) == [k \in 1..Len(str) |-> IF str[k] = "-" THEN "_" ELSE str[k]]

\* str(n) for a natural number
RECURSIVE str(_)
str(n) ==
    IF n < 10 THEN <<ToString(n)>> ELSE str(n \div 10) \o <<ToString(n % 10)>>

\* the characters of "_chain"
ChainPostfix == <<"_", "c", "h", "a", "i", "n">>

\* generate_output_filename with the return of chain_nr == 0 removed
generate_output_filename_NoEarlyReturn(filepath, args, procs, chain_nr) ==
    LET tokens == create_tokens_from_filepath(filepath)
        pb_postfix == re_sub_dash(re_sub_space(args))
        base == tokens.basename \o pb_postfix \o <<"_">> \o str(procs)
        return_path == IF tokens.dirbase # <<>>
                       THEN tokens.dirbase \o <<"/">> \o base
                       ELSE base
    IN  return_path \o ChainPostfix \o str(chain_nr)

\* generate_output_filename
generate_output_filename(filepath, args, procs, chain_nr) ==
    LET tokens == create_tokens_from_filepath(filepath)
        pb_postfix == re_sub_dash(re_sub_space(args))
        base == tokens.basename \o pb_postfix \o <<"_">> \o str(procs)
        return_path == IF tokens.dirbase # <<>>
                       THEN tokens.dirbase \o <<"/">> \o base
                       ELSE base
    IN  IF chain_nr = 0
        THEN return_path
        ELSE return_path \o ChainPostfix \o str(chain_nr)

\* the decimal texts the diagnostic tools print in the model, in hundredths
FloatTable ==
    ("0.05" :> 5) @@ ("0.3" :> 30) @@ ("0.31" :> 31) @@
    ("40" :> 4000) @@ ("50" :> 5000) @@ ("400" :> 40000)

\* float(s) raises ValueError unless s is the text of a number
IsNumeric(s) == s \in DOMAIN FloatTable
float(s) == FloatTable[s]

\* str.startswith(prefix) for a one-token prefix
startswith(line, tok) == Len(line) > 0 /\ line[1] = tok

\* str.find(tok) != -1
find(line, tok) == \E k \in 1..Len(line) : line[k] = tok

\* stdout.splitlines()[0], or "" when there is no line
FirstLine(out) == IF Len(out) > 0 THEN out[1] ELSE <<>>

\* min(num_samples)
RECURSIVE SeqMin(_)
SeqMin(s) ==
    IF Len(s) = 1 THEN s[1]
    ELSE LET m == SeqMin(Tail(s)) IN IF s[1] < m THEN s[1] ELSE m

\* all sequences over S of length at most n
SeqsUpTo(S, n) == UNION { [1..k -> S] : k \in 0..n }

\* ------------------------------------------------- what the outside answers
\* stdout of "sacct -n -j <subtask>"
SacctOutputs ==
    { <<>>,
      << <<WS, WS>> >>,
      << <<"41.0", WS, "pb", WS, "PENDING", WS>> >>,
      << <<"41.0", WS, "pb", WS, "RUNNING", WS>> >>,
      << <<"41.0", WS, "pb", WS, "COMPLETED", WS>> >> }

\* stdout of bpcomp: nothing, or the maxdiff and meandiff lines
Meandiff == <<"meandiff", WS, ":", WS, "0.05">>
BpReports ==
    { <<>>,
      << <<"maxdiff", WS, WS, ":", WS, "0.3">>, Meandiff >>,
      << <<"maxdiff", WS, WS, ":", WS, "0.31">>, Meandiff >>,
      << <<"maxdiff", WS, WS, ":", WS, "abc">>, Meandiff >>,
      << Meandiff >> }

\* lines tracecomp can print
TrLineSet ==
    { <<"name", WS, "effsize", WS, "rel_diff">>,
      <<"length", WS, "50", WS, "0.3">>,
      <<"length", WS, "40", WS, "0.05">>,
      <<"alpha", WS, "400", WS, "0.31">>,
      <<"alpha", WS, "abc", WS, "0.05">>,
      <<"alpha", WS, "400">>,
      <<"alpha">> }

TrReports == SeqsUpTo(TrLineSet, MaxRows)

\* content of a .run file, or None when the file does not exist: the
\* sampler writes "1" when it starts and "0" when it ends; stoppb writes "0"
RunFileContents == {"1", "0", None}

\* environments the script is started in
Environments ==
    { [SLURM_JOB_ID |-> None, SLURM_ARRAY_JOB_ID |-> None, SLURM_ARRAY_TASK_ID |-> None],
      [SLURM_JOB_ID |-> "41", SLURM_ARRAY_JOB_ID |-> None, SLURM_ARRAY_TASK_ID |-> None],
      [SLURM_JOB_ID |-> "41", SLURM_ARRAY_JOB_ID |-> "9", SLURM_ARRAY_TASK_ID |-> "3"],
      [SLURM_JOB_ID |-> None, SLURM_ARRAY_JOB_ID |-> "", SLURM_ARRAY_TASK_ID |-> ""],
      [SLURM_JOB_ID |-> "41", SLURM_ARRAY_JOB_ID |-> "9", SLURM_ARRAY_TASK_ID |-> None] }

\* values of --min-sample-size / --max-sample-size
SampleSizeArgs ==
    { [min_sample_size |-> 2, max_sample_size |-> 3],
      [min_sample_size |-> 4, max_sample_size |-> 1] }

\* ------------------------------------------------------------------ state
VARIABLES
    env,                    \* os.environ, the three SLURM_* variables read
    MIN_SAMPLE_SIZE,        \* pb_starter.MIN_SAMPLE_SIZE
    MAX_SAMPLE_SIZE,        \* pb_starter.MAX_SAMPLE_SIZE
    pc,                     \* position of the governor
    i,                      \* chain index of the running for loop
    waited,                 \* start_pb_jobs: waited
    every_chain_is_running, \* check_convergence: every_chain_is_running
    num_samples,            \* check_convergence: num_samples
    burnin,                 \* check_convergence: burnin
    bp_lines,               \* check_convergence: lines (stdout of bpcomp)
    bp_res,                 \* check_convergence: bp_res
    t_lines,                \* check_convergence: t_lines (stdout of tracecomp)
    tr_res,                 \* check_convergence: tr_res
    tr_line_number,         \* check_convergence: tr_line_number
    all_running,            \* check_convergence: all_running
    exitCode,               \* exit status of the process, -1 while it runs
    error,                  \* the uncaught exception that ended it, or "none"
    trace,                  \* line count of each chain's .trace file, or Absent
    submitted,              \* the srun commands issued so far
    confirm_seen,           \* chains for which sacct printed a status at launch
    polled,                 \* check_convergence has been entered at least once
    live_queried,           \* chains whose liveness was queried in this cycle
    live_line,              \* first_line of each liveness query of this cycle
    stops,                  \* stoppb commands per chain in this cycle
    diag,                   \* diagnostic programs run in this cycle, with -x
    run_read,               \* chains whose .run file was read in this cycle
    alive,                  \* chains whose sampler process is running
    stop_sent,              \* chains that were ever sent a stoppb command
    call,                   \* arguments of the pure function under check
    ret                     \* its result, or NotCalled

progVars == <<env, MIN_SAMPLE_SIZE, MAX_SAMPLE_SIZE, pc, i, waited,
              every_chain_is_running, num_samples, burnin, bp_lines, bp_res,
              t_lines, tr_res, tr_line_number, all_running, exitCode, error>>
worldVars == <<trace, submitted, confirm_seen, polled, live_queried,
               live_line, stops, diag, run_read, alive, stop_sent>>
pureVars == <<call, ret>>
vars == <<progVars, worldVars, pureVars>>

\* the variables of one call of check_convergence, before it has done anything
CycleReset ==
    /\ every_chain_is_running' = TRUE
    /\ num_samples' = <<>>
    /\ burnin' = 0
    /\ bp_lines' = <<>>
    /\ bp_res' = 0
    /\ t_lines' = <<>>
    /\ tr_res' = 0
    /\ tr_line_number' = 0
    /\ all_running' = FALSE
    /\ live_queried' = {}
    /\ live_line' = [j \in Chains |-> <<>>]
    /\ stops' = [j \in Chains |-> 0]
    /\ diag' = <<>>
    /\ run_read' = {}

Init ==
    /\ env \in Environments
    /\ \E a \in SampleSizeArgs :
          /\ MIN_SAMPLE_SIZE = a.min_sample_size
          /\ MAX_SAMPLE_SIZE = a.max_sample_size
    /\ pc = "submit"
    /\ i = 1
    /\ waited = 0
    /\ every_chain_is_running = TRUE
    /\ num_samples = <<>>
    /\ burnin = 0
    /\ bp_lines = <<>>
    /\ bp_res = 0
    /\ t_lines = <<>>
    /\ tr_res = 0
    /\ tr_line_number = 0
    /\ all_running = FALSE
    /\ exitCode = -1
    /\ error = "none"
    /\ trace \in [Chains -> {Absent} \cup 0..MaxCount]
    /\ submitted = <<>>
    /\ confirm_seen = {}
    /\ polled = FALSE
    /\ live_queried = {}
    /\ live_line = [j \in Chains |-> <<>>]
    /\ stops = [j \in Chains |-> 0]
    /\ diag = <<>>
    /\ run_read = {}
    /\ alive = {}
    /\ stop_sent = {}
    /\ call = NotCalled
    /\ ret = NotCalled

\* ------------------------------------------------------- shared fragments
\* the job identifier both methods compute from the environment
ArrayIdRaises(e) ==
    e.SLURM_ARRAY_JOB_ID # None /\ e.SLURM_ARRAY_TASK_ID = None

slurm_job_id(e) ==
    IF e.SLURM_ARRAY_JOB_ID # None
    THEN e.SLURM_ARRAY_JOB_ID \o "_" \o e.SLURM_ARRAY_TASK_ID
    ELSE e.SLURM_JOB_ID

\* the test without its second half: "_" counts as a job identifier
UnderSlurm_AnyId(e) == slurm_job_id(e) # None

\* if not slurm_job_id is None and slurm_job_id != "_"
UnderSlurm(e) == slurm_job_id(e) # None /\ slurm_job_id(e) # "_"

\* subtask_id = slurm_job_id + "." + str(i-1)
subtask_id(e, n) == slurm_job_id(e) \o "." \o ToString(n - 1)

\* sys.exit(code), or an uncaught exception (exit status 1)
Exit(code, exc) ==
    /\ pc' = "exit"
    /\ exitCode' = code
    /\ error' = exc

\* ---------------------------------------------------------- start_pb_jobs
\* the test without rstrip(): a blank line counts as a status
SrunStarted_NoStrip(first_line) == Len(first_line) # 0

\* if len(first_line.rstrip()) != 0: srun_started = True
SrunStarted(first_line) == Len(rstrip(first_line)) # 0

\* if waited > max_wait: sys.exit(3)
WaitExceeded(w) == w > max_wait

\* the for loop goes to the next chain, or start_pb_jobs returns to main
NextChainOrReturn ==
    IF i < chains
    THEN /\ pc' = "submit"
         /\ i' = i + 1
         /\ UNCHANGED <<exitCode, error>>
    ELSE /\ pc' = "sleep"
         /\ i' = 1
         /\ UNCHANGED <<exitCode, error>>

\* pb_command = "pb" (+ "_mpi" if processes > 1) + " "
pb_command == <<"pb">> \o (IF processes > 1 THEN <<"_mpi">> ELSE <<>>) \o <<" ">>

\* the srun command of chain n, resuming whenever asked to launch
SrunCommand_AlwaysResume(n) ==
    LET pb_out_filename == generate_output_filename(infile, pb_args, processes, n)
        srun == << <<"srun --cpu_bind=v,threads -c 1 -n ">>, str(processes),
                   <<" -o ">>, pb_out_filename, <<".out ">>, pb_command >>
    IN  [chain |-> n,
         existed |-> trace[n] # Absent,
         cmd |-> srun \o << pb_out_filename, <<" &">> >>]

\* the srun command of chain n, as the list of the strings the code
\* concatenates: resume when the .trace file exists
SrunCommand(n) ==
    LET pb_out_filename == generate_output_filename(infile, pb_args, processes, n)
        srun == << <<"srun --cpu_bind=v,threads -c 1 -n ">>, str(processes),
                   <<" -o ">>, pb_out_filename, <<".out ">>, pb_command >>
    IN  [chain |-> n,
         existed |-> trace[n] # Absent,
         cmd |-> IF trace[n] # Absent
                 THEN srun \o << pb_out_filename, <<" &">> >>
                 ELSE srun \o << pb_args, <<" -d ">>, infile, <<" ">>,
                                 pb_out_filename, <<" &">> >>]

\* one iteration of the for loop that does not wait for the confirmation
Submit_NoWait ==
    /\ pc = "submit"
    /\ submitted' = Append(submitted, SrunCommand(i))
    /\ alive' = alive \cup {i}
    /\ waited' = 0
    /\ IF ArrayIdRaises(env)
       THEN Exit(1, "TypeError") /\ UNCHANGED i
       ELSE NextChainOrReturn
    /\ UNCHANGED <<env, MIN_SAMPLE_SIZE, MAX_SAMPLE_SIZE,
                   every_chain_is_running, num_samples, burnin, bp_lines,
                   bp_res, t_lines, tr_res, tr_line_number, all_running,
                   trace, confirm_seen, polled, live_queried, live_line,
                   stops, diag, run_read, stop_sent>>
    /\ UNCHANGED pureVars

\* one iteration of the for loop up to the confirmation loop
Submit ==
    /\ pc = "submit"
    /\ submitted' = Append(submitted, SrunCommand(i))
    /\ alive' = alive \cup {i}
    /\ waited' = 0
    /\ IF ArrayIdRaises(env)
       THEN Exit(1, "TypeError") /\ UNCHANGED i
       ELSE IF UnderSlurm(env)
            THEN pc' = "confirm" /\ UNCHANGED <<i, exitCode, error>>
            ELSE NextChainOrReturn
    /\ UNCHANGED <<env, MIN_SAMPLE_SIZE, MAX_SAMPLE_SIZE,
                   every_chain_is_running, num_samples, burnin, bp_lines,
                   bp_res, t_lines, tr_res, tr_line_number, all_running,
                   trace, confirm_seen, polled, live_queried, live_line,
                   stops, diag, run_read, stop_sent>>
    /\ UNCHANGED pureVars

\* one iteration of the while loop: sleep, sacct, count, decide
\* (waited is a local of start_pb_jobs: it is gone when the method returns)
ConfirmQuery ==
    /\ pc = "confirm"
    /\ \E out \in SacctOutputs :
          /\ confirm_seen' = IF Len(rstrip(FirstLine(out))) # 0
                              THEN confirm_seen \cup {i} ELSE confirm_seen
          /\ IF SrunStarted(FirstLine(out))
             THEN /\ NextChainOrReturn
                  /\ waited' = IF i < chains THEN waited + 1 ELSE 0
             ELSE IF WaitExceeded(waited + 1)
                  THEN Exit(3, "none") /\ waited' = waited + 1 /\ UNCHANGED i
                  ELSE waited' = waited + 1 /\ UNCHANGED <<pc, i, exitCode, error>>
    /\ UNCHANGED <<env, MIN_SAMPLE_SIZE, MAX_SAMPLE_SIZE,
                   every_chain_is_running, num_samples, burnin, bp_lines,
                   bp_res, t_lines, tr_res, tr_line_number, all_running,
                   trace, submitted, polled, live_queried, live_line,
                   stops, diag, run_read, alive, stop_sent>>
    /\ UNCHANGED pureVars

\* ------------------------------------------------------ check_convergence
\* the test without find("RUNNING"): any status counts as running
ChainIsRunning_AnyStatus(first_line) == Len(rstrip(first_line)) # 0

\* if len(first_line.rstrip()) != 0 and first_line.find("RUNNING") != -1
ChainIsRunning(first_line) ==
    Len(rstrip(first_line)) # 0 /\ find(first_line, "RUNNING")

\* if float(fields[-1]) <= self.BPCOMP_MAXDIFF
MaxdiffPasses(v) == v <= BPCOMP_MAXDIFF

\* if float(fields[1]) >= self.TRCOMP_EFFSIZE
EffSizePasses(v) == v >= TRCOMP_EFFSIZE

\* if float(fields[2]) <= self.TRCOMP_RELDIFF
RelDiffPasses(v) == v <= TRCOMP_RELDIFF

\* if bp_res == 1 and tr_res == tr_line_number
Converged(bp, tr, n) == bp = 1 /\ tr = n

\* the test with >=: a count equal to the cap is over it
OverCap_Inclusive(c, cap) == c >= cap

\* if num_samples[i-1] > self.MAX_SAMPLE_SIZE
OverCap(c, cap) == c > cap

\* if min_samples >= self.MIN_SAMPLE_SIZE
EnoughSamples(m, lo) == m >= lo

\* a burn-in of half the smallest count
Burnin_Half(m) == m \div 2

\* burnin = int(float(min_samples) / 4.0)
Burnin(m) == m \div 4

\* the loop over range(1, chains): the last chain is left out
StopAll_ButLast(st) ==
    [j \in Chains |-> IF j < chains THEN st[j] + 1 ELSE st[j]]

\* for i in range(1, chains+1): os.system("stoppb " + ...)
StopAll(st) == [j \in Chains |-> st[j] + 1]

\* the for loop over the lines of bpcomp, from line k on
RECURSIVE BpScan(_, _, _)
BpScan(lines, k, res) ==
    IF k > Len(lines) THEN [bp_res |-> res, exc |-> "none"]
    ELSE IF startswith(lines[k], "maxdiff")
         THEN LET fields == re_split(rstrip(lines[k]))
                  last == fields[Len(fields)]
              IN  IF ~IsNumeric(last)
                  THEN [bp_res |-> res, exc |-> "ValueError"]
                  ELSE BpScan(lines, k + 1,
                              IF MaxdiffPasses(float(last)) THEN 1 ELSE res)
         ELSE BpScan(lines, k + 1, res)

\* the for loop over the lines of tracecomp, from line k on
RECURSIVE TrScan(_, _, _, _)
TrScan(lines, k, res, n) ==
    IF k > Len(lines) THEN [tr_res |-> res, tr_line_number |-> n, exc |-> "none"]
    ELSE LET fields == re_split(rstrip(lines[k])) IN
         IF Len(fields) > 1 /\ fields[1] # "name"
         THEN IF ~IsNumeric(fields[2])
              THEN [tr_res |-> res, tr_line_number |-> n + 1, exc |-> "ValueError"]
              ELSE LET r1 == IF EffSizePasses(float(fields[2])) THEN res + 1 ELSE res IN
                   IF Len(fields) < 3
                   THEN [tr_res |-> r1, tr_line_number |-> n + 1, exc |-> "IndexError"]
                   ELSE IF ~IsNumeric(fields[3])
                        THEN [tr_res |-> r1, tr_line_number |-> n + 1, exc |-> "ValueError"]
                        ELSE TrScan(lines, k + 1,
                                    IF RelDiffPasses(float(fields[3])) THEN r1 + 1 ELSE r1,
                                    n + 1)
         ELSE TrScan(lines, k + 1, res, n)

\* main: the sleep of the while loop, and the head of check_convergence.
\* While the governor sleeps the samplers run on their own: some of them
\* end, after having appended to their .trace file.
Sleep ==
    /\ pc = "sleep"
    /\ polled' = TRUE
    /\ CycleReset
    /\ i' = 1
    /\ pc' = IF UnderSlurm(env) THEN "liveness" ELSE "read"
    /\ \E ended \in SUBSET alive :
          /\ alive' = alive \ ended
          /\ \E t \in [Chains -> {Absent} \cup 0..MaxCount] :
                /\ \A j \in Chains :
                      IF j \in ended THEN t[j] >= trace[j] ELSE t[j] = trace[j]
                /\ trace' = t
    /\ UNCHANGED <<env, MIN_SAMPLE_SIZE, MAX_SAMPLE_SIZE, waited, exitCode,
                   error, submitted, confirm_seen, stop_sent>>
    /\ UNCHANGED pureVars

\* one iteration of the liveness loop; after the last one, the exit test
LivenessQuery ==
    /\ pc = "liveness"
    /\ \E out \in SacctOutputs :
          LET running == ChainIsRunning(FirstLine(out))
              every == every_chain_is_running /\ running
          IN  /\ find(FirstLine(out), "RUNNING") => i \in alive
              /\ alive' = IF find(FirstLine(out), "RUNNING")
                           THEN alive ELSE alive \ {i}
              /\ every_chain_is_running' = every
              /\ live_queried' = live_queried \cup {i}
              /\ live_line' = [live_line EXCEPT ![i] = FirstLine(out)]
              /\ IF i < chains
                 THEN i' = i + 1 /\ UNCHANGED <<pc, exitCode, error>>
                 ELSE IF ~every
                      THEN Exit(4, "none") /\ UNCHANGED i
                      ELSE pc' = "read" /\ i' = 1 /\ UNCHANGED <<exitCode, error>>
    /\ UNCHANGED <<env, MIN_SAMPLE_SIZE, MAX_SAMPLE_SIZE, waited, num_samples,
                   burnin, bp_lines, bp_res, t_lines, tr_res, tr_line_number,
                   all_running, trace, submitted, confirm_seen, polled, stops,
                   diag, run_read, stop_sent>>
    /\ UNCHANGED pureVars

\* one iteration of the sample loop; after the last one, the tests on
\* min_samples that do not need the diagnostics
ReadSample ==
    /\ pc = "read"
    /\ \E c \in {Absent} \cup 0..MaxCount :
          /\ c >= trace[i]
          /\ c > trace[i] => i \in alive
          /\ trace' = [trace EXCEPT ![i] = c]
          /\ IF c = Absent
             THEN /\ Exit(1, "FileNotFoundError")
                  /\ UNCHANGED <<i, num_samples, stops, stop_sent, burnin>>
             ELSE /\ num_samples' = Append(num_samples, c)
                  /\ stops' = IF OverCap(c, MAX_SAMPLE_SIZE)
                              THEN [stops EXCEPT ![i] = @ + 1] ELSE stops
                  /\ stop_sent' = IF OverCap(c, MAX_SAMPLE_SIZE)
                                  THEN stop_sent \cup {i} ELSE stop_sent
                  /\ IF i < chains
                     THEN i' = i + 1 /\ UNCHANGED <<pc, exitCode, error, burnin>>
                     ELSE LET min_samples == SeqMin(Append(num_samples, c)) IN
                          IF EnoughSamples(min_samples, MIN_SAMPLE_SIZE)
                          THEN /\ burnin' = Burnin(min_samples)
                               /\ pc' = "bpcomp"
                               /\ UNCHANGED <<i, exitCode, error>>
                          ELSE IF min_samples >= MAX_SAMPLE_SIZE
                               THEN Exit(0, "none") /\ UNCHANGED <<i, burnin>>
                               ELSE /\ pc' = "runflags"
                                    /\ i' = 1
                                    /\ UNCHANGED <<exitCode, error, burnin>>
    /\ UNCHANGED <<env, MIN_SAMPLE_SIZE, MAX_SAMPLE_SIZE, waited,
                   every_chain_is_running, bp_lines, bp_res, t_lines, tr_res,
                   tr_line_number, all_running, submitted, confirm_seen,
                   polled, live_queried, live_line, diag, run_read, alive>>
    /\ UNCHANGED pureVars

\* bpcomp is run and its stdout scanned
Bpcomp ==
    /\ pc = "bpcomp"
    /\ \E out \in BpReports :
          LET r == BpScan(out, 1, 0) IN
          /\ bp_lines' = out
          /\ bp_res' = r.bp_res
          /\ diag' = Append(diag, [prog |-> "bpcomp", x |-> burnin])
          /\ IF r.exc # "none"
             THEN Exit(1, r.exc)
             ELSE pc' = "tracecomp" /\ UNCHANGED <<exitCode, error>>
    /\ UNCHANGED <<env, MIN_SAMPLE_SIZE, MAX_SAMPLE_SIZE, i, waited,
                   every_chain_is_running, num_samples, burnin, t_lines,
                   tr_res, tr_line_number, all_running, trace, submitted,
                   confirm_seen, polled, live_queried, live_line, stops,
                   run_read, alive, stop_sent>>
    /\ UNCHANGED pureVars

\* tracecomp is run, its stdout scanned, and the decision taken
Tracecomp ==
    /\ pc = "tracecomp"
    /\ \E out \in TrReports :
          LET r == TrScan(out, 1, 0, 0) IN
          /\ t_lines' = out
          /\ tr_res' = r.tr_res
          /\ tr_line_number' = r.tr_line_number
          /\ diag' = Append(diag, [prog |-> "tracecomp", x |-> burnin])
          /\ IF r.exc # "none"
             THEN Exit(1, r.exc) /\ UNCHANGED <<stops, stop_sent>>
             ELSE IF Converged(bp_res, r.tr_res, r.tr_line_number)
                  THEN /\ stops' = StopAll(stops)
                       /\ stop_sent' = Chains
                       /\ Exit(0, "none")
                  ELSE /\ pc' = "sleep"
                       /\ UNCHANGED <<stops, stop_sent, exitCode, error>>
    /\ UNCHANGED <<env, MIN_SAMPLE_SIZE, MAX_SAMPLE_SIZE, i, waited,
                   every_chain_is_running, num_samples, burnin, bp_lines,
                   bp_res, all_running, trace, submitted, confirm_seen,
                   polled, live_queried, live_line, run_read, alive>>
    /\ UNCHANGED pureVars

\* one iteration of the .run loop; after the last one, the exit test
RunFlagRead ==
    /\ pc = "runflags"
    /\ \E content \in RunFileContents :
          IF content = None
          THEN /\ Exit(1, "FileNotFoundError")
               /\ UNCHANGED <<i, all_running, run_read, alive>>
          ELSE LET any == all_running \/ content = "1" IN
               /\ content = "1" => i \in alive
               /\ alive' = IF content = "1" \/ i \in stop_sent
                           THEN alive ELSE alive \ {i}
               /\ all_running' = any
               /\ run_read' = run_read \cup {i}
               /\ IF i < chains
                  THEN i' = i + 1 /\ UNCHANGED <<pc, exitCode, error>>
                  ELSE IF ~any
                       THEN Exit(0, "none") /\ UNCHANGED i
                       ELSE pc' = "sleep" /\ UNCHANGED <<i, exitCode, error>>
    /\ UNCHANGED <<env, MIN_SAMPLE_SIZE, MAX_SAMPLE_SIZE, waited,
                   every_chain_is_running, num_samples, burnin, bp_lines,
                   bp_res, t_lines, tr_res, tr_line_number, trace, submitted,
                   confirm_seen, polled, live_queried, live_line, stops, diag,
                   stop_sent>>
    /\ UNCHANGED pureVars

Next ==
    \/ Submit
    \/ ConfirmQuery
    \/ Sleep
    \/ LivenessQuery
    \/ ReadSample
    \/ Bpcomp
    \/ Tracecomp
    \/ RunFlagRead

Spec == Init /\ [][Next]_vars

\* ------------------------------------------------------ pure functions
\* The file name generation and the process count of main depend on their
\* arguments only: they are called once on arguments drawn from the sets
\* below, in a specification of their own.

\* values of --input: a, a.p, d/a.p, /a.p, .a, d.x/a, a.b.p, d//a
FilePaths ==
    { <<"a">>, <<"a", ".", "p">>, <<"d", "/", "a", ".", "p">>,
      <<"/", "a", ".", "p">>, <<".", "a">>, <<"d", ".", "x", "/", "a">>,
      <<"a", ".", "b", ".", "p">>, <<"d", "/", "/", "a">> }

\* values of --pb-args: empty, "-c", "-c -g", " -c"
ArgStrings ==
    { <<>>, <<"-", "c">>, <<"-", "c", " ", "-", "g">>, <<" ", "-", "c">> }

\* values of SLURM_NTASKS
NtasksTexts == {None} \cup {ToString(n) : n \in 1..MaxTasks}

\* int(slurm_ntasks)
int(text) == CHOOSE n \in 0..MaxTasks : ToString(n) = text

Calls ==
    [fn : {"generate_output_filename"}, filepath : FilePaths,
     pb_args : ArgStrings, processes : {1, MaxProcs},
     chain_nr : 0..MaxChainNr]
    \cup
    [fn : {"main"}, processes : 1..MaxProcs, chains : 1..MaxChains,
     SLURM_NTASKS : NtasksTexts]

\* main: the process count handed to start_pb_jobs
MainProcesses(requested, nchains, slurm_ntasks) ==
    IF slurm_ntasks # None
    THEN IF requested # nchains * int(slurm_ntasks)
         THEN int(slurm_ntasks) \div nchains
         ELSE requested
    ELSE requested

PureInit ==
    /\ call \in Calls
    /\ ret = NotCalled
    /\ env = [SLURM_JOB_ID |-> None, SLURM_ARRAY_JOB_ID |-> None,
              SLURM_ARRAY_TASK_ID |-> None]
    /\ MIN_SAMPLE_SIZE = 0
    /\ MAX_SAMPLE_SIZE = 0
    /\ pc = "pure"
    /\ i = 1
    /\ waited = 0
    /\ every_chain_is_running = TRUE
    /\ num_samples = <<>>
    /\ burnin = 0
    /\ bp_lines = <<>>
    /\ bp_res = 0
    /\ t_lines = <<>>
    /\ tr_res = 0
    /\ tr_line_number = 0
    /\ all_running = FALSE
    /\ exitCode = -1
    /\ error = "none"
    /\ trace = [j \in Chains |-> Absent]
    /\ submitted = <<>>
    /\ confirm_seen = {}
    /\ polled = FALSE
    /\ live_queried = {}
    /\ live_line = [j \in Chains |-> <<>>]
    /\ stops = [j \in Chains |-> 0]
    /\ diag = <<>>
    /\ run_read = {}
    /\ alive = {}
    /\ stop_sent = {}

\* one call of generate_output_filename; ret holds the returned value
CallGenerateOutputFilename ==
    /\ ret = NotCalled
    /\ call.fn = "generate_output_filename"
    /\ ret' = <<generate_output_filename(call.filepath, call.pb_args,
                                         call.processes, call.chain_nr)>>
    /\ UNCHANGED <<progVars, worldVars, call>>

\* the process count override of main; ret holds the resulting count
CallMain ==
    /\ ret = NotCalled
    /\ call.fn = "main"
    /\ ret' = <<MainProcesses(call.processes, call.chains, call.SLURM_NTASKS)>>
    /\ UNCHANGED <<progVars, worldVars, call>>

PureNext ==
    \/ CallGenerateOutputFilename
    \/ CallMain

PureSpec == PureInit /\ [][PureNext]_vars

\* The governor is one sequential process: whenever it has a next statement
\* it executes it (time.sleep returns, every subprocess is waited for).
LiveSpec == Init /\ [][Next]_vars /\ WF_vars(Next)

\* ------------------------------------------- vocabulary of the properties
\* the fields of a report line, as the reader of the report sees them
Fields(line) == re_split(rstrip(line))

\* a line of the trace report that is a parameter row (not the header)
IsParamRow(line) ==
    /\ Len(Fields(line)) = 3
    /\ Fields(line)[1] # "name"
    /\ IsNumeric(Fields(line)[2])
    /\ IsNumeric(Fields(line)[3])

IsHeader(line) == Len(Fields(line)) > 1 /\ Fields(line)[1] = "name"

\* both sub-checks of a parameter row hold
RowPasses(line) ==
    /\ float(Fields(line)[2]) >= TRCOMP_EFFSIZE
    /\ float(Fields(line)[3]) <= TRCOMP_RELDIFF

\* the trace report is well formed: a header or a parameter row on each line
TraceWellFormed(lines) ==
    \A k \in 1..Len(lines) : IsParamRow(lines[k]) \/ IsHeader(lines[k])

NumParamRows(lines) == Cardinality({k \in 1..Len(lines) : IsParamRow(lines[k])})

\* a maxdiff line of the pairwise report with a numeric value
IsMaxdiffLine(line) == startswith(line, "maxdiff")
MaxdiffValueOK(line) ==
    /\ IsNumeric(Fields(line)[Len(Fields(line))])
    /\ float(Fields(line)[Len(Fields(line))]) <= BPCOMP_MAXDIFF

\* the pairwise report carries a value, and it is within the threshold
PairwiseWithin(lines) ==
    /\ \E k \in 1..Len(lines) : IsMaxdiffLine(lines[k])
    /\ \A k \in 1..Len(lines) : IsMaxdiffLine(lines[k]) => MaxdiffValueOK(lines[k])

\* both diagnostics were run and scanned to the end in this cycle
Evaluated == Len(diag) = 2 /\ error = "none"

\* every chain got a stop command in this cycle
AllStopped == \A j \in Chains : stops[j] >= 1

\* nothing of a poll cycle after the liveness check has happened
NothingAfterLiveness ==
    /\ num_samples = <<>>
    /\ diag = <<>>
    /\ run_read = {}
    /\ \A j \in Chains : stops[j] = 0

\* a status line that shows the running state
ShowsRunning(line) == Len(rstrip(line)) # 0 /\ find(line, "RUNNING")

\* ------------------------------------------------------------------ C1
\* C1: whenever the evaluation runs, the pairwise-difference value is within
\* its threshold and the trace report has n >= 1 parameter rows that all pass
\* both sub-checks, every chain gets a stop command and the exit code is 0.
C1_AllPassConverges ==
    ( /\ Evaluated
      /\ PairwiseWithin(bp_lines)
      /\ TraceWellFormed(t_lines)
      /\ NumParamRows(t_lines) >= 1
      /\ \A k \in 1..Len(t_lines) : IsParamRow(t_lines[k]) => RowPasses(t_lines[k]) )
    => (exitCode = 0 /\ AllStopped)

\* ------------------------------------------------------------------ C2
\* C2: an evaluation in which some parameter row fails a sub-check never
\* ends in the converged decision (stop of every chain and exit code 0).
C2_WeakRowBlocks ==
    ( /\ Evaluated
      /\ \E k \in 1..Len(t_lines) :
            IsParamRow(t_lines[k]) /\ ~RowPasses(t_lines[k]) )
    => ~(exitCode = 0 /\ AllStopped)

\* ------------------------------------------------------------------ C3
\* C3: a poll cycle that read every chain's count, with the minimum at or
\* above MAX_SAMPLE_SIZE (and MAX_SAMPLE_SIZE >= MIN_SAMPLE_SIZE), ends with
\* exit code 0: it never returns to the sleep of the loop.  Runs ended by an
\* exception are left aside.
C3_HardCapExits ==
    ( /\ MAX_SAMPLE_SIZE >= MIN_SAMPLE_SIZE
      /\ Len(num_samples) = chains
      /\ SeqMin(num_samples) >= MAX_SAMPLE_SIZE
      /\ pc \in {"sleep", "exit"}
      /\ error = "none" )
    => exitCode = 0

\* ------------------------------------------------------------------ C4
\* C4: under a scheduler the launch returns only when sacct has printed a
\* status for every chain; a confirmation that sees none is over after
\* max_wait + 1 queries at the latest, with exit code 3, and then nothing of
\* a poll cycle has happened.
C4_LaunchTimeoutIsFatal ==
    /\ (UnderSlurm(env) /\ (polled \/ pc = "sleep")) => confirm_seen = Chains
    /\ (UnderSlurm(env) /\ pc = "confirm") => ~WaitExceeded(waited)
    /\ (UnderSlurm(env) /\ pc = "exit" /\ ~polled /\ error = "none") => exitCode = 3
    /\ exitCode = 3 =>
          /\ UnderSlurm(env)
          /\ ~polled
          /\ i \notin confirm_seen
          /\ live_queried = {}
          /\ NothingAfterLiveness

\* a run that waited for a chain in vain and gave up
C4_Witness ==
    /\ exitCode = 3
    /\ i = chains
    /\ confirm_seen = 1..(chains - 1)
    /\ waited > 1

\* ------------------------------------------------------------------ C5
\* C5: the confirmation of one chain makes at most max_wait (60) status
\* queries.
C5_AtMostMaxWaitQueries == waited <= max_wait

\* ------------------------------------------------------------------ C6
\* C6: under a scheduler, whatever a poll cycle does after the liveness
\* check, it does after sacct showed every chain running in that cycle; a
\* cycle in which some chain is not shown running (an empty status included)
\* ends with exit code 4 and has read no sample count, run no diagnostic and
\* issued no stop command.
C6_LivenessFirst ==
    /\ ( /\ UnderSlurm(env)
         /\ polled
         /\ \/ pc \in {"read", "bpcomp", "tracecomp", "runflags"}
            \/ ~NothingAfterLiveness
            \/ exitCode \in {0, 1} )
       => ( /\ live_queried = Chains
            /\ \A j \in Chains : ShowsRunning(live_line[j]) )
    /\ ( /\ UnderSlurm(env)
         /\ live_queried = Chains
         /\ \E j \in Chains : ~ShowsRunning(live_line[j]) )
       => exitCode = 4
    /\ exitCode = 4 =>
          /\ UnderSlurm(env)
          /\ live_queried = Chains
          /\ \E j \in Chains : ~ShowsRunning(live_line[j])
          /\ NothingAfterLiveness

\* a cycle that ends with exit code 4 because the last chain has no status
C6_Witness ==
    /\ exitCode = 4
    /\ ShowsRunning(live_line[1])
    /\ Len(rstrip(live_line[chains])) = 0

\* ------------------------------------------------------------------ C7
\* C7: exit code 0 has one of three causes: the converged decision, the hard
\* cap reached by every chain, or, without a scheduler only, no .run file
\* showing a running chain; under a scheduler no .run file is read, and (with
\* MAX_SAMPLE_SIZE >= MIN_SAMPLE_SIZE) no cycle whose minimum count is below
\* MIN_SAMPLE_SIZE ends with exit code 0.  Stated on the exits: an exit with
\* code 0 that rests on the .run files happens without a scheduler only.
C7_ExitZeroCauses ==
    /\ exitCode = 0 =>
          \/ (Len(diag) = 2 /\ AllStopped)
          \/ (Len(num_samples) = chains /\ diag = <<>> /\ run_read = {}
                /\ SeqMin(num_samples) >= MAX_SAMPLE_SIZE)
          \/ (~UnderSlurm(env) /\ run_read = Chains /\ ~all_running)
    /\ ( /\ UnderSlurm(env)
         /\ exitCode = 0
         /\ MAX_SAMPLE_SIZE >= MIN_SAMPLE_SIZE )
       => SeqMin(num_samples) >= MIN_SAMPLE_SIZE

\* ------------------------------------------------------------------ C8
\* C8: in one poll cycle no chain gets more than one stop command.
C8_OneStopPerCycle == \A j \in Chains : stops[j] <= 1

\* ------------------------------------------------------------------ C9
\* C9: a missing .trace file counts as 0 samples: while the sample counts of
\* a cycle are being read the governor is never ended by an exception.
C9_MissingTraceIsZero ==
    (polled /\ Len(num_samples) < chains /\ diag = <<>> /\ run_read = {})
    => exitCode # 1

\* ------------------------------------------------------------------ C10
\* C10: a diagnostic report that cannot be parsed never ends the governor
\* with an exception, and the cycle that met it is not a converged one.
C10_ParseAnomalyIsNotFatal ==
    /\ error \notin {"ValueError", "IndexError"}
    /\ ( /\ Len(diag) = 2
         /\ \/ ~TraceWellFormed(t_lines)
            \/ \E k \in 1..Len(bp_lines) :
                  IsMaxdiffLine(bp_lines[k])
                  /\ ~IsNumeric(Fields(bp_lines[k])[Len(Fields(bp_lines[k]))])
            \/ ~\E k \in 1..Len(bp_lines) : IsMaxdiffLine(bp_lines[k]) )
       => exitCode # 0

\* ------------------------------------------------------------------ C11
\* C11: once no chain is running any more the governor eventually
\* terminates, whatever the mode and the sample counts.
C11_StoppedChainsEndTheRun ==
    (polled /\ alive = {}) ~> (pc = "exit")

\* ------------------------------------------------------------------ C12
\* C12: in a cycle where a chain is over MAX_SAMPLE_SIZE while the minimum
\* count is under MIN_SAMPLE_SIZE, that chain is sent a stop and no
\* diagnostic is run; and the governor does not end (exit 0 or 4, without
\* an evaluation) because the chains it stopped are no longer running while
\* another chain still is.
C12_CappedChainDoesNotEndTheRun ==
    /\ ( /\ Len(num_samples) = chains
         /\ SeqMin(num_samples) < MIN_SAMPLE_SIZE )
       => /\ diag = <<>>
          /\ \A j \in Chains :
                num_samples[j] > MAX_SAMPLE_SIZE => stops[j] = 1
    /\ ( /\ exitCode \in {0, 4}
         /\ diag = <<>>
         /\ MAX_SAMPLE_SIZE >= MIN_SAMPLE_SIZE
         /\ Chains \ alive # {}
         /\ Chains \ alive \subseteq stop_sent )
       => alive = {}

\* ------------------------------------------------------------------ C13
\* C13: a chain whose .trace file exists at launch is started with the
\* resume command, which names the output prefix only (no sampler argument,
\* no alignment path); any other chain is started with the sampler
\* arguments, the alignment path and the output prefix, in this order.
C13_ResumeOrFreshStart ==
    \A k \in 1..Len(submitted) :
        LET prefix == generate_output_filename(infile, pb_args, processes,
                                               submitted[k].chain)
            cmd == submitted[k].cmd
            after == SubSeq(cmd, 7, Len(cmd))
        IN  /\ cmd[4] = prefix
            /\ cmd[6] = pb_command
            /\ IF submitted[k].existed
               THEN /\ after = << prefix, <<" &">> >>
                    /\ \A m \in 1..Len(cmd) : cmd[m] \notin {infile, pb_args}
               ELSE after = << pb_args, <<" -d ">>, infile, <<" ">>,
                               prefix, <<" &">> >>

\* both kinds of launch in one run
C13_Witness ==
    /\ Len(submitted) = chains
    /\ submitted[1].existed
    /\ ~submitted[2].existed

\* ------------------------------------------------------------------ C14
\* C14: when SLURM_NTASKS is set, the process count used for launching,
\* times the number of chains, never exceeds the number of tasks (the
\* claim's equality processes * chains = tasks implies it).
C14_ProcessesFitTheAllocation ==
    ( /\ ret # NotCalled
      /\ call.fn = "main"
      /\ call.SLURM_NTASKS # None )
    => ret[1] * call.chains <= int(call.SLURM_NTASKS)

\* ------------------------------------------------------------------ C15
\* C15: the name generated for chain number n >= 1 is the name generated
\* for chain number 0 followed by "_chain" and the decimal text of n, so no
\* two chain numbers get the same name from the same arguments.
C15_ChainPostfix ==
    ( /\ ret # NotCalled
      /\ call.fn = "generate_output_filename" )
    => LET name(n) == generate_output_filename(call.filepath, call.pb_args,
                                               call.processes, n)
       IN  /\ call.chain_nr >= 1 =>
                ret[1] = name(0) \o <<"_", "c", "h", "a", "i", "n">>
                                 \o str(call.chain_nr)
           /\ \A n \in 0..MaxChainNr : n # call.chain_nr => name(n) # ret[1]

\* the name of chain 11 of d/a.p
C15_Witness ==
    /\ ret # NotCalled
    /\ call.fn = "generate_output_filename"
    /\ call.chain_nr = 11
    /\ call.filepath = <<"d", "/", "a", ".", "p">>
    /\ call.pb_args = <<"-", "c", " ", "-", "g">>
    /\ call.processes = 1
    /\ ret[1] = <<"d", "/", "a", "_", "c", "_", "g", "_", "1",
                  "_", "c", "h", "a", "i", "n", "1", "1">>

\* ------------------------------------------------------------------ C16
\* C16: a diagnostic is run in a cycle only when every chain's count read
\* in that cycle is at least MIN_SAMPLE_SIZE, and every diagnostic of the
\* cycle is given the burn-in floor(smallest count / 4).
C16_DiagnosticsNeedMinSamples ==
    diag # <<>> =>
        /\ Len(num_samples) = chains
        /\ \A j \in Chains : num_samples[j] >= MIN_SAMPLE_SIZE
        /\ \A k \in 1..Len(diag) :
              \E q \in 0..MaxCount :
                  /\ 4 * q <= SeqMin(num_samples)
                  /\ SeqMin(num_samples) < 4 * (q + 1)
                  /\ diag[k].x = q

\* both diagnostics were run with a burn-in of 1
C16_Witness ==
    /\ Len(diag) = 2
    /\ diag[1] = [prog |-> "bpcomp", x |-> 1]
    /\ diag[2] = [prog |-> "tracecomp", x |-> 1]

\* ------------------------------------------------------------------ C17
\* no SLURM_JOB_ID, and no or only empty array job variables
NoJobIdentifier ==
    /\ env.SLURM_JOB_ID = None
    /\ env.SLURM_ARRAY_JOB_ID \in {None, ""}
    /\ env.SLURM_ARRAY_TASK_ID \in {None, ""}

\* C17: without a job identifier the launch makes no status query and
\* cannot end with exit code 3, and no poll cycle makes a liveness query or
\* ends with exit code 4.
C17_DirectModeNeverQueries ==
    NoJobIdentifier =>
        /\ pc \notin {"confirm", "liveness"}
        /\ waited = 0
        /\ confirm_seen = {}
        /\ live_queried = {}
        /\ \A j \in Chains : live_line[j] = <<>>
        /\ exitCode \notin {3, 4}

\* a poll cycle that read every count, with empty array job variables
C17_Witness ==
    /\ NoJobIdentifier
    /\ env.SLURM_ARRAY_JOB_ID = ""
    /\ Len(submitted) = chains
    /\ polled
    /\ Len(num_samples) = chains

\* ------------------------------------------------------------------ C18
\* C18: the chains are submitted once each, in the order 1..chains, before
\* the first poll cycle; with a job identifier chain k + 1 is submitted
\* only after a status of chain k was seen; nothing is submitted once the
\* polling has begun.
C18_EachChainSubmittedOnce ==
    /\ Len(submitted) <= chains
    /\ \A k \in 1..Len(submitted) : submitted[k].chain = k
    /\ ~NoJobIdentifier =>
          \A k \in 2..Len(submitted) : (k - 1) \in confirm_seen
    /\ polled => Len(submitted) = chains /\ pc \notin {"submit", "confirm"}

\* polling after a launch in which every chain was confirmed
C18_Witness ==
    /\ ~NoJobIdentifier
    /\ polled
    /\ confirm_seen = Chains
    /\ \A k \in Chains : submitted[k].chain = k

\* ------------------------------------------------------------------ C19
\* C19: when the governor ends on the converged decision (exit code 0 after
\* both diagnostics), every chain was sent a stop in that cycle, whether it
\* is still running or not.
C19_ConvergedStopsEveryChain ==
    (exitCode = 0 /\ Len(diag) = 2) =>
        /\ \A j \in Chains : stops[j] >= 1
        /\ stop_sent = Chains

\* a converged exit while chain 1 had already ended and chain 2 had not
C19_Witness ==
    /\ exitCode = 0
    /\ Len(diag) = 2
    /\ alive = {2}
    /\ stops = [j \in Chains |-> 1]

C21_NoRowsNoConvergence ==
    (exitCode = 0 /\ Len(diag) = 2) => NumParamRows(t_lines) > 0

====
